---- MODULE Spec2Model ----
(***************************************************************************)
(* Model of the YouTube downloader: the Streamlit application (app.py) run *)
(* by two browser sessions that share one downloads directory, and the     *)
(* command-line script (concept.py).                                       *)
(*                                                                         *)
(* A Streamlit script run is a sequence of steps of one session; pc[s] is  *)
(* the position of session s in its current run.  Steps that touch the     *)
(* downloads directory are separate actions, so that the runs of the two   *)
(* sessions interleave at file operations.                                 *)
(***************************************************************************)
EXTENDS Integers, Sequences, FiniteSets, TLC

\* The browser sessions served by the one Streamlit process.
Sessions == {"s1", "s2"}

(***************************************************************************)
(* Streams, as the extraction library describes them.  res and abr are 0   *)
(* where the library gives None.  filesize is the declared size, length    *)
(* the number of bytes the server really sends.                            *)
(***************************************************************************)
Stream(i, t, p, r, a, e, f, l) ==
    [itag |-> i, type |-> t, is_progressive |-> p, res |-> r, abr |-> a,
     ext |-> e, filesize |-> f, length |-> l]

NoStream == Stream(0, "none", FALSE, 0, 0, "none", 0, 0)

\* The video of spec.md section 8 (ids 1, 2, 3), with one webm stream added.
StreamsA ==
    << Stream(1, "video", FALSE, 1080, 0, "mp4", 2, 2),
       Stream(2, "video", TRUE, 720, 96, "mp4", 2, 2),
       Stream(3, "audio", FALSE, 0, 160, "mp4", 1, 1),
       Stream(4, "video", FALSE, 2160, 0, "webm", 2, 2) >>

\* A video with no audio-only mp4 stream, and a progressive stream whose
\* declared size is zero.
StreamsB ==
    << Stream(5, "video", FALSE, 1080, 0, "mp4", 1, 1),
       Stream(6, "video", TRUE, 360, 96, "mp4", 0, 1) >>

TitleA == <<"A">>
TitleB == <<"B", "!", " ">>

\* What the user can type in the URL box.
Urls == {"", "bad", "gone", "urlA", "urlB"}

\* YouTube(url) raises on a string that holds no video id.
ValidUrl(url) == url \in {"gone", "urlA", "urlB"}
\* yt.streams raises for a video that is unavailable.
Available(url) == url \in {"urlA", "urlB"}

StreamsOf(url) == IF url = "urlA" THEN StreamsA
                  ELSE IF url = "urlB" THEN StreamsB ELSE <<>>
TitleOf(url) == IF url = "urlA" THEN TitleA
                ELSE IF url = "urlB" THEN TitleB ELSE <<>>

(***************************************************************************)
(* The stream queries of the extraction library, as the code calls them.   *)
(***************************************************************************)
Key(st, attr) == IF attr = "resolution" THEN st.res ELSE st.abr

RECURSIVE InsertByKey(_, _, _)
InsertByKey(x, sorted, attr) ==
    IF sorted = <<>> THEN <<x>>
    ELSE IF Key(x, attr) < Key(Head(sorted), attr) THEN <<x>> \o sorted
    ELSE <<Head(sorted)>> \o InsertByKey(x, Tail(sorted), attr)

RECURSIVE OrderFrom(_, _, _)
OrderFrom(q, acc, attr) ==
    IF q = <<>> THEN acc
    ELSE OrderFrom(Tail(q), InsertByKey(Head(q), acc, attr), attr)

\* order_by(attr): the streams that have the attribute, ascending, stable.
order_by(q, attr) ==
    OrderFrom(SelectSeq(q, LAMBDA st : Key(st, attr) > 0), <<>>, attr)

RECURSIVE desc(_)
desc(q) == IF q = <<>> THEN <<>> ELSE Append(desc(Tail(q)), Head(q))

first(q) == IF q = <<>> THEN NoStream ELSE Head(q)
last(q) == IF q = <<>> THEN NoStream ELSE q[Len(q)]

Mp4Video(q) == SelectSeq(q, LAMBDA st : st.ext = "mp4" /\ st.type = "video")
Mp4Audio(q) == SelectSeq(q, LAMBDA st : st.ext = "mp4" /\ st.type = "audio")
Mp4Adaptive(q) == SelectSeq(q, LAMBDA st : st.ext = "mp4" /\ ~st.is_progressive)
Progressive(q) == SelectSeq(q, LAMBDA st : st.is_progressive)

\* all_streams.filter(file_extension='mp4', type="video").order_by('resolution').desc()
VideoStreamList(q) == desc(order_by(Mp4Video(q), "resolution"))
\* all_streams.filter(only_audio=True, file_extension='mp4').order_by('abr').desc()
AudioStreamList(q) == desc(order_by(Mp4Audio(q), "abr"))

BestAudio(q) == first(AudioStreamList(q))

RECURSIVE get_by_itag(_, _)
get_by_itag(q, itag) ==
    IF q = <<>> THEN NoStream
    ELSE IF Head(q).itag = itag THEN Head(q) ELSE get_by_itag(Tail(q), itag)

(***************************************************************************)
(* File names.                                                             *)
(***************************************************************************)
IsAlnum(c) == c \in {"A", "B"}

RECURSIVE rstrip(_)
rstrip(t) == IF t # <<>> /\ t[Len(t)] = " " THEN rstrip(SubSeq(t, 1, Len(t) - 1))
             ELSE t

sanitized_title(title) ==
    rstrip(SelectSeq(title, LAMBDA c : IsAlnum(c) \/ c \in {" ", ".", "_"}))

Path(prefix, name, tag, ext) ==
    [prefix |-> prefix, name |-> name, tag |-> tag, ext |-> ext]
NoPath == Path("", <<>>, 0, "none")

\* stream.download(filename_prefix=...): the library's default file name.
DefaultPath(prefix, title, st) ==
    Path(prefix, title, 0, IF st.type = "audio" THEN "m4a" ELSE "mp4")
\* f"{sanitized_title} - {stream.resolution}.mp4"
VideoOutputPath(title, st) == Path("", sanitized_title(title), st.res, "mp4")
\* f"{sanitized_title} - {stream.abr}.mp3"
AudioOutputPath(title, st) == Path("", sanitized_title(title), st.abr, "mp3")

RECURSIVE SeqToSet(_)
SeqToSet(q) == IF q = <<>> THEN {} ELSE {Head(q)} \cup SeqToSet(Tail(q))

GoodUrls == {u \in Urls : Available(u)}
Paths ==
    UNION { UNION { { DefaultPath("video_", TitleOf(u), st),
                      DefaultPath("audio_", TitleOf(u), st),
                      DefaultPath("", TitleOf(u), st),
                      VideoOutputPath(TitleOf(u), st),
                      AudioOutputPath(TitleOf(u), st) } :
                    st \in SeqToSet(StreamsOf(u)) } : u \in GoodUrls }

NoFile == [owner |-> "nobody", kind |-> "absent"]
File(s, kind) == [owner |-> s, kind |-> kind]

NoInfo == [bytes |-> NoFile, filename |-> NoPath, type |-> "none"]

(***************************************************************************)
(* State.                                                                  *)
(*   files, dir_exists, ffmpeg_installed : the host (shared by sessions)   *)
(*   keys .. last_percent                : st.session_state of a session   *)
(*   registered                          : on_progress is registered on yt *)
(*   pc, req, rendered                   : the current script run          *)
(*   created, crash, msgs, reported      : what the run did, for the       *)
(*                                         properties                      *)
(*   runs                                : script runs started so far      *)
(*   cli                                 : the run of concept.py           *)
(***************************************************************************)
VARIABLES files, dir_exists, ffmpeg_installed,
          keys, yt, registered, video_streams, audio_streams, download_info,
          last_percent,
          pc, req, rendered,
          created, crash, msgs, reported,
          runs, cli

\* The number of script runs the users start, over all sessions.
MaxRuns == 4

hostVars == <<files, dir_exists, ffmpeg_installed>>
stateVars == <<keys, yt, registered, video_streams, audio_streams,
               download_info, last_percent>>
runVars == <<pc, req, rendered>>
obsVars == <<created, crash, msgs, reported>>
vars == <<hostVars, stateVars, runVars, obsVars, runs, cli>>

NoReq ==
    [btn |-> "none", url |-> "", itag |-> 0, stream |-> NoStream,
     dl |-> NoStream, dl_path |-> NoPath, received |-> 0, next |-> "idle",
     video_filepath |-> NoPath, audio_filepath |-> NoPath,
     output_filename |-> NoPath, final_video_path |-> NoPath,
     merge |-> "not_called"]

NoCli ==
    [pc |-> "off", streams |-> <<>>, video |-> NoStream, audio |-> NoStream,
     downloaded |-> {}, out |-> {}]

AppInit ==
    /\ files = [p \in Paths |-> NoFile]
    /\ dir_exists = FALSE
    /\ ffmpeg_installed \in BOOLEAN
    /\ keys = [s \in Sessions |-> {}]
    /\ yt = [s \in Sessions |-> "None"]
    /\ registered = [s \in Sessions |-> FALSE]
    /\ video_streams = [s \in Sessions |-> <<>>]
    /\ audio_streams = [s \in Sessions |-> <<>>]
    /\ download_info = [s \in Sessions |-> NoInfo]
    /\ last_percent = [s \in Sessions |-> 0]
    /\ pc = [s \in Sessions |-> "idle"]
    /\ req = [s \in Sessions |-> NoReq]
    /\ rendered = [s \in Sessions |-> {}]
    /\ created = [s \in Sessions |-> {}]
    /\ crash = [s \in Sessions |-> "none"]
    /\ msgs = [s \in Sessions |-> {}]
    /\ reported = [s \in Sessions |-> <<>>]
    /\ runs = 0

Init == AppInit /\ cli = NoCli

(***************************************************************************)
(* Session state.                                                          *)
(***************************************************************************)
\* Session State Initialization: each missing key gets its default.
InitializedKeys(ks) ==
    ks \cup {"log", "yt", "download_info", "video_streams", "audio_streams"}

\* reset_state: every key but log and terminal_display is deleted; log is set.
reset_state(ks) == (ks \cap {"log", "terminal_display"}) \cup {"log"}

\* video_options / audio_options: a dict from label to itag; of two streams with
\* one label the later one stays.
VideoLabel(st) == <<st.res, st.is_progressive, st.filesize>>
AudioLabel(st) == <<st.abr, st.ext, st.filesize>>

RECURSIVE OptionItags(_, _)
OptionItags(q, isVideo) ==
    IF q = <<>> THEN {}
    ELSE LET lab(st) == IF isVideo THEN VideoLabel(st) ELSE AudioLabel(st)
             later == SeqToSet(Tail(q))
         IN  (IF \E st \in later : lab(st) = lab(Head(q)) THEN {}
              ELSE {Head(q).itag}) \cup OptionItags(Tail(q), isVideo)

\* An uncaught exception ends the script run; the session stays open.  The two
\* AttributeErrors are told apart: MissingStateKey is the read of a deleted
\* session-state key, NoneTypeAttribute a method call on None.
Raise(s, kind) ==
    /\ crash' = [crash EXCEPT ![s] = kind]
    /\ pc' = [pc EXCEPT ![s] = "idle"]

Say(s, tags) == msgs' = [msgs EXCEPT ![s] = @ \cup tags]

(***************************************************************************)
(* A user interaction starts a script run, which begins with the session   *)
(* state initialization.                                                   *)
(***************************************************************************)
StartRun(s) ==
    /\ pc[s] = "idle"
    /\ runs < MaxRuns
    /\ runs' = runs + 1
    /\ \E btn \in {"none", "fetch"} \cup rendered[s] :
       \E url \in (IF btn = "fetch" THEN Urls ELSE {""}) :
       \E itag \in (IF btn = "video" THEN OptionItags(video_streams[s], TRUE)
                    ELSE IF btn = "audio" THEN OptionItags(audio_streams[s], FALSE)
                    ELSE {0}) :
          /\ req' = [req EXCEPT ![s] = [NoReq EXCEPT !.btn = btn, !.url = url,
                                                     !.itag = itag]]
          /\ pc' = [pc EXCEPT ![s] = IF btn = "fetch" THEN "fetch" ELSE "display"]
    /\ keys' = [keys EXCEPT ![s] = InitializedKeys(@)]
    /\ rendered' = [rendered EXCEPT ![s] = {}]
    /\ created' = [created EXCEPT ![s] = {}]
    /\ crash' = [crash EXCEPT ![s] = "none"]
    /\ msgs' = [msgs EXCEPT ![s] = {}]
    /\ reported' = [reported EXCEPT ![s] = <<>>]
    /\ UNCHANGED <<hostVars, yt, registered, video_streams, audio_streams,
                   download_info, last_percent, cli>>

\* The values of the keys reset_state deletes.
Deleted(s) ==
    /\ download_info' = [download_info EXCEPT ![s] = NoInfo]
    /\ last_percent' = [last_percent EXCEPT ![s] = 0]

\* Fetch Info: reset_state, then the streams of the URL.
FetchInfo(s) ==
    /\ pc[s] = "fetch"
    /\ LET url == req[s].url
           ks == reset_state(keys[s])
       IN  /\ Deleted(s)
           /\ registered' = [registered EXCEPT ![s] = FALSE]
           /\ IF url = ""
              THEN /\ keys' = [keys EXCEPT ![s] = ks]
                   /\ yt' = [yt EXCEPT ![s] = "None"]
                   /\ video_streams' = [video_streams EXCEPT ![s] = <<>>]
                   /\ audio_streams' = [audio_streams EXCEPT ![s] = <<>>]
                   /\ Say(s, {"no_url_warning"})
              ELSE IF ~ValidUrl(url)
              THEN /\ keys' = [keys EXCEPT ![s] = ks]
                   /\ yt' = [yt EXCEPT ![s] = "None"]
                   /\ video_streams' = [video_streams EXCEPT ![s] = <<>>]
                   /\ audio_streams' = [audio_streams EXCEPT ![s] = <<>>]
                   /\ Say(s, {"fetch_error"})
              ELSE IF ~Available(url)
              THEN /\ keys' = [keys EXCEPT ![s] = ks \cup {"yt"}]
                   /\ yt' = [yt EXCEPT ![s] = url]
                   /\ video_streams' = [video_streams EXCEPT ![s] = <<>>]
                   /\ audio_streams' = [audio_streams EXCEPT ![s] = <<>>]
                   /\ Say(s, {"fetch_error"})
              ELSE /\ keys' = [keys EXCEPT ![s] =
                                 ks \cup {"yt", "video_streams", "audio_streams"}]
                   /\ yt' = [yt EXCEPT ![s] = url]
                   /\ video_streams' = [video_streams EXCEPT ![s] =
                                          VideoStreamList(StreamsOf(url))]
                   /\ audio_streams' = [audio_streams EXCEPT ![s] =
                                          AudioStreamList(StreamsOf(url))]
                   /\ Say(s, {"fetched"})
    /\ pc' = [pc EXCEPT ![s] = "display"]
    /\ UNCHANGED <<hostVars, req, rendered, created, crash, reported, runs, cli>>

\* Display Fetched Info: reads yt, then video_streams in the video tab.
Display(s) ==
    /\ pc[s] = "display"
    /\ IF "yt" \notin keys[s]
       THEN Raise(s, "MissingStateKey") /\ UNCHANGED rendered
       ELSE IF yt[s] = "None"
       THEN pc' = [pc EXCEPT ![s] = "show"] /\ UNCHANGED <<rendered, crash>>
       ELSE IF "video_streams" \notin keys[s]
       THEN Raise(s, "MissingStateKey") /\ UNCHANGED rendered
       ELSE IF video_streams[s] # <<>>
       THEN /\ rendered' = [rendered EXCEPT ![s] = @ \cup {"video"}]
            /\ pc' = [pc EXCEPT ![s] = IF req[s].btn = "video" THEN "dv_start"
                                       ELSE "audio_tab"]
            /\ UNCHANGED crash
       ELSE pc' = [pc EXCEPT ![s] = "audio_tab"] /\ UNCHANGED <<rendered, crash>>
    /\ UNCHANGED <<hostVars, stateVars, req, created, msgs, reported, runs, cli>>

\* Audio tab: reads audio_streams.
AudioTab(s) ==
    /\ pc[s] = "audio_tab"
    /\ IF "audio_streams" \notin keys[s]
       THEN Raise(s, "MissingStateKey") /\ UNCHANGED rendered
       ELSE IF audio_streams[s] # <<>>
       THEN /\ rendered' = [rendered EXCEPT ![s] = @ \cup {"audio"}]
            /\ pc' = [pc EXCEPT ![s] =
                        IF req[s].btn = "audio" THEN "da_start" ELSE "show"]
            /\ UNCHANGED crash
       ELSE pc' = [pc EXCEPT ![s] = "show"] /\ UNCHANGED <<rendered, crash>>
    /\ UNCHANGED <<hostVars, stateVars, req, created, msgs, reported, runs, cli>>

\* Display Downloaded File reads download_info; then the terminal column, where
\* Clear Log & Reset calls reset_state and reruns the script.
Show(s) ==
    /\ pc[s] = "show"
    /\ IF "download_info" \notin keys[s]
       THEN /\ Raise(s, "MissingStateKey")
            /\ UNCHANGED <<stateVars, req, rendered>>
       ELSE IF req[s].btn = "clear"
       THEN /\ keys' = [keys EXCEPT ![s] =
                          InitializedKeys(reset_state(@ \cup {"terminal_display"}))]
            /\ yt' = [yt EXCEPT ![s] = "None"]
            /\ registered' = [registered EXCEPT ![s] = FALSE]
            /\ video_streams' = [video_streams EXCEPT ![s] = <<>>]
            /\ audio_streams' = [audio_streams EXCEPT ![s] = <<>>]
            /\ Deleted(s)
            /\ req' = [req EXCEPT ![s].btn = "none"]
            /\ rendered' = [rendered EXCEPT ![s] = {}]
            /\ pc' = [pc EXCEPT ![s] = "display"]
            /\ UNCHANGED crash
       ELSE /\ keys' = [keys EXCEPT ![s] = @ \cup {"terminal_display"}]
            /\ rendered' = [rendered EXCEPT ![s] = @ \cup {"clear"}]
            /\ pc' = [pc EXCEPT ![s] = "idle"]
            /\ UNCHANGED <<yt, registered, video_streams, audio_streams,
                           download_info, last_percent, req, crash>>
    /\ UNCHANGED <<hostVars, created, msgs, reported, runs, cli>>

(***************************************************************************)
(* Downloading one stream: stream.download opens the file, then writes the *)
(* chunks, calling the registered progress callback after each.            *)
(***************************************************************************)
ProgressStep == 10

\* on_progress(stream, chunk, bytes_remaining), given session_state's
\* last_percent: whether it raises, what it logs, the new last_percent.
on_progress(st, bytes_remaining, lastp) ==
    LET total_size == st.filesize
        bytes_downloaded == total_size - bytes_remaining
    IN  IF total_size = 0
        THEN [raised |-> TRUE, logged |-> <<>>, last |-> lastp]
        ELSE IF bytes_downloaded * 100 > (lastp + ProgressStep) * total_size
        THEN [raised |-> FALSE,
              logged |-> << (bytes_downloaded * 100) \div total_size >>,
              last |-> (bytes_downloaded * 100) \div total_size]
        ELSE [raised |-> FALSE, logged |-> <<>>, last |-> lastp]

FileKind(st) == IF st.is_progressive THEN "progressive" ELSE st.type

\* The download is set up: the stream, its path, and where the run goes on.
Fetching(r, st, path, next) ==
    [r EXCEPT !.dl = st, !.dl_path = path, !.received = 0, !.next = next]

\* stream.download starts: the file is opened for writing, or the request fails.
DlOpen(s) ==
    /\ pc[s] = "dl_open"
    /\ \/ /\ files' = [files EXCEPT ![req[s].dl_path] = File(s, FileKind(req[s].dl))]
          /\ created' = [created EXCEPT ![s] = @ \cup {req[s].dl_path}]
          /\ pc' = [pc EXCEPT ![s] = IF req[s].dl.length = 0 THEN req[s].next
                                     ELSE "dl"]
          /\ UNCHANGED crash
       \/ /\ Raise(s, "DownloadError")
          /\ UNCHANGED <<files, created>>
    /\ UNCHANGED <<dir_exists, ffmpeg_installed, stateVars, req, rendered, msgs,
                   reported, runs, cli>>

\* One chunk arrives and the callback runs.
DlChunk(s) ==
    /\ pc[s] = "dl"
    /\ \E n \in 1 .. (req[s].dl.length - req[s].received) :
          LET got == req[s].received + n
              cb == on_progress(req[s].dl, req[s].dl.filesize - got,
                                last_percent[s])
          IN  /\ req' = [req EXCEPT ![s].received = got]
              /\ IF registered[s] /\ cb.raised
                 THEN /\ Raise(s, "ZeroDivisionError")
                      /\ UNCHANGED <<keys, last_percent, reported>>
                 ELSE /\ pc' = [pc EXCEPT ![s] = IF got = req[s].dl.length
                                                 THEN req[s].next ELSE "dl"]
                      /\ IF registered[s] /\ cb.logged # <<>>
                         THEN /\ last_percent' = [last_percent EXCEPT ![s] = cb.last]
                              /\ keys' = [keys EXCEPT ![s] = @ \cup {"last_percent"}]
                              /\ reported' = [reported EXCEPT ![s] = @ \o cb.logged]
                         ELSE UNCHANGED <<keys, last_percent, reported>>
                      /\ UNCHANGED crash
    /\ UNCHANGED <<hostVars, yt, registered, video_streams, audio_streams,
                   download_info, rendered, created, msgs, runs, cli>>

\* The connection breaks in the middle of a download.
DlFail(s) ==
    /\ pc[s] = "dl"
    /\ Raise(s, "DownloadError")
    /\ UNCHANGED <<hostVars, stateVars, req, rendered, created, msgs, reported, runs, cli>>

(***************************************************************************)
(* Download Video.                                                         *)
(***************************************************************************)
\* The branch taken as if no stream were progressive.
NeverProgressive(st) == FALSE

\* if stream.is_progressive:
IsProgressiveSelection(st) == st.is_progressive

\* The handler up to its first download.
DvStart(s) ==
    /\ pc[s] = "dv_start"
    /\ LET stream == get_by_itag(StreamsOf(yt[s]), req[s].itag)
           title == TitleOf(yt[s])
           r == [req[s] EXCEPT !.stream = stream,
                               !.output_filename = VideoOutputPath(title, stream)]
       IN  /\ download_info' = [download_info EXCEPT ![s] = NoInfo]
           /\ registered' = [registered EXCEPT ![s] = TRUE]
           /\ last_percent' = [last_percent EXCEPT ![s] = 0]
           /\ keys' = [keys EXCEPT ![s] = @ \cup {"last_percent"}]
           /\ \/ /\ dir_exists' = TRUE
                 /\ req' = [req EXCEPT ![s] =
                      IF IsProgressiveSelection(stream)
                      THEN Fetching(r, stream, r.output_filename, "dv_finish")
                      ELSE Fetching(r, stream, DefaultPath("video_", title, stream),
                                    "dv_audio")]
                 /\ pc' = [pc EXCEPT ![s] = "dl_open"]
                 /\ UNCHANGED crash
              \/ /\ ~dir_exists
                 /\ Raise(s, "OSError")
                 /\ UNCHANGED <<dir_exists, req>>
    /\ UNCHANGED <<files, ffmpeg_installed, yt, video_streams, audio_streams,
                   rendered, created, msgs, reported, runs, cli>>

\* The video track is on disk; the best audio stream is looked up and fetched.
DvAudio(s) ==
    /\ pc[s] = "dv_audio"
    /\ LET audio_stream == BestAudio(StreamsOf(yt[s]))
           r == [req[s] EXCEPT !.video_filepath = req[s].dl_path]
       IN  IF audio_stream = NoStream
           THEN /\ Raise(s, "NoneTypeAttribute")
                /\ req' = [req EXCEPT ![s] = r]
           ELSE /\ req' = [req EXCEPT ![s] =
                     Fetching(r, audio_stream,
                              DefaultPath("audio_", TitleOf(yt[s]), audio_stream),
                              "dv_merge")]
                /\ pc' = [pc EXCEPT ![s] = "dl_open"]
                /\ UNCHANGED crash
    /\ UNCHANGED <<hostVars, stateVars, rendered, created, msgs, reported, runs, cli>>

\* combine_video_audio_ffmpeg: what it returns and logs, given whether the
\* executable is found, whether reading its output fails, and its exit status.
ExitCodes == {0, 1}

\* The same with the FileNotFoundError handler returning output_path.
MergeNotFoundReturnsPath(installed, broken, returncode) ==
    IF ~installed
    THEN [ok |-> TRUE, merge |-> "not_found", log |-> {"ffmpeg_not_found"}]
    ELSE IF broken
    THEN [ok |-> FALSE, merge |-> "error", log |-> {"merge_unexpected"}]
    ELSE IF returncode = 0
    THEN [ok |-> TRUE, merge |-> "ok", log |-> {"ffmpeg_output", "merge_ok"}]
    ELSE [ok |-> FALSE, merge |-> "failed", log |-> {"ffmpeg_output", "merge_failed"}]

combine_video_audio_ffmpeg(installed, broken, returncode) ==
    IF ~installed
    THEN [ok |-> FALSE, merge |-> "not_found", log |-> {"ffmpeg_not_found"}]
    ELSE IF broken
    THEN [ok |-> FALSE, merge |-> "error", log |-> {"merge_unexpected"}]
    ELSE IF returncode = 0
    THEN [ok |-> TRUE, merge |-> "ok", log |-> {"ffmpeg_output", "merge_ok"}]
    ELSE [ok |-> FALSE, merge |-> "failed", log |-> {"ffmpeg_output", "merge_failed"}]

\* The audio track is on disk; the encoder runs.
DvMerge(s) ==
    /\ pc[s] = "dv_merge"
    /\ LET r == [req[s] EXCEPT !.audio_filepath = req[s].dl_path]
           inputs == files[r.video_filepath] # NoFile /\ files[r.audio_filepath] # NoFile
       IN  \E broken \in BOOLEAN :
           \E returncode \in (IF inputs THEN ExitCodes ELSE ExitCodes \ {0}) :
              LET res == combine_video_audio_ffmpeg(ffmpeg_installed, broken, returncode)
              IN  /\ req' = [req EXCEPT ![s] =
                       [r EXCEPT !.merge = res.merge,
                                 !.final_video_path =
                                     IF res.ok THEN r.output_filename ELSE NoPath]]
                  /\ Say(s, res.log)
                  /\ IF res.merge = "ok"
                     THEN /\ files' = [files EXCEPT ![r.output_filename] =
                                         File(s, "merged")]
                          /\ created' = [created EXCEPT ![s] =
                                           @ \cup {r.output_filename}]
                     ELSE UNCHANGED <<files, created>>
    /\ pc' = [pc EXCEPT ![s] = "dv_finish"]
    /\ UNCHANGED <<dir_exists, ffmpeg_installed, stateVars, rendered, crash,
                   reported, runs, cli>>

\* After the merge (or the progressive download): the tracks are removed if the
\* merge gave a path, and the final file is read into download_info.
DvFinish(s) ==
    /\ pc[s] = "dv_finish"
    /\ LET r == req[s]
           progressive == IsProgressiveSelection(r.stream)
           final == IF progressive THEN r.dl_path ELSE r.final_video_path
           remove == ~progressive /\ final # NoPath
           afterVideo == IF remove /\ files[r.video_filepath] # NoFile
                         THEN [files EXCEPT ![r.video_filepath] = NoFile] ELSE files
           afterAudio == IF remove /\ afterVideo[r.audio_filepath] # NoFile
                         THEN [afterVideo EXCEPT ![r.audio_filepath] = NoFile]
                         ELSE afterVideo
       IN  /\ req' = [req EXCEPT ![s].final_video_path = final]
           /\ IF remove /\ files[r.video_filepath] = NoFile
              THEN /\ Raise(s, "FileNotFoundError")
                   /\ UNCHANGED <<files, download_info, msgs>>
              ELSE IF remove /\ afterVideo[r.audio_filepath] = NoFile
              THEN /\ Raise(s, "FileNotFoundError")
                   /\ files' = afterVideo
                   /\ UNCHANGED <<download_info, msgs>>
              ELSE IF final = NoPath
              THEN /\ pc' = [pc EXCEPT ![s] = "audio_tab"]
                   /\ UNCHANGED <<files, download_info, msgs, crash>>
              ELSE /\ files' = afterAudio
                   /\ Say(s, {"process_complete"})
                   /\ IF afterAudio[final] = NoFile
                      THEN Raise(s, "FileNotFoundError") /\ UNCHANGED download_info
                      ELSE /\ download_info' = [download_info EXCEPT ![s] =
                                [bytes |-> afterAudio[final],
                                 filename |-> r.output_filename, type |-> "video"]]
                           /\ pc' = [pc EXCEPT ![s] = "audio_tab"]
                           /\ UNCHANGED crash
    /\ UNCHANGED <<dir_exists, ffmpeg_installed, keys, yt, registered,
                   video_streams, audio_streams, last_percent, rendered, created,
                   reported, runs, cli>>

(***************************************************************************)
(* Download Audio.                                                         *)
(***************************************************************************)
\* The handler up to its download.
DaStart(s) ==
    /\ pc[s] = "da_start"
    /\ LET stream == get_by_itag(StreamsOf(yt[s]), req[s].itag)
           title == TitleOf(yt[s])
           r == [req[s] EXCEPT !.stream = stream,
                               !.output_filename = AudioOutputPath(title, stream)]
       IN  /\ download_info' = [download_info EXCEPT ![s] = NoInfo]
           /\ \/ /\ dir_exists' = TRUE
                 /\ req' = [req EXCEPT ![s] =
                      Fetching(r, stream, DefaultPath("", title, stream),
                               "da_convert")]
                 /\ pc' = [pc EXCEPT ![s] = "dl_open"]
                 /\ UNCHANGED crash
              \/ /\ ~dir_exists
                 /\ Raise(s, "OSError")
                 /\ UNCHANGED <<dir_exists, req>>
    /\ UNCHANGED <<files, ffmpeg_installed, keys, yt, registered, video_streams,
                   audio_streams, last_percent, rendered, created, msgs, reported,
                   runs, cli>>

\* subprocess.run(command, check=True): the exception it raises, or "none".
ConvertRaises(installed, returncode) ==
    IF ~installed THEN "FileNotFoundError"
    ELSE IF returncode # 0 THEN "CalledProcessError"
    ELSE "none"

\* The conversion to MP3.
DaConvert(s) ==
    /\ pc[s] = "da_convert"
    /\ \E returncode \in (IF files[req[s].dl_path] # NoFile THEN ExitCodes
                          ELSE ExitCodes \ {0}) :
          LET exc == ConvertRaises(ffmpeg_installed, returncode)
          IN  IF exc # "none"
              THEN Raise(s, exc) /\ UNCHANGED <<files, created>>
              ELSE /\ files' = [files EXCEPT ![req[s].output_filename] =
                                  File(s, "mp3")]
                   /\ created' = [created EXCEPT ![s] =
                                    @ \cup {req[s].output_filename}]
                   /\ pc' = [pc EXCEPT ![s] = "da_finish"]
                   /\ UNCHANGED crash
    /\ UNCHANGED <<dir_exists, ffmpeg_installed, stateVars, req, rendered, msgs,
                   reported, runs, cli>>

\* The original download is removed and the MP3 is read into download_info.
DaFinish(s) ==
    /\ pc[s] = "da_finish"
    /\ LET r == req[s]
           afterTemp == [files EXCEPT ![r.dl_path] = NoFile]
       IN  IF files[r.dl_path] = NoFile
           THEN /\ Raise(s, "FileNotFoundError")
                /\ UNCHANGED <<files, download_info, msgs>>
           ELSE /\ files' = afterTemp
                /\ Say(s, {"audio_complete"})
                /\ IF afterTemp[r.output_filename] = NoFile
                   THEN Raise(s, "FileNotFoundError") /\ UNCHANGED download_info
                   ELSE /\ download_info' = [download_info EXCEPT ![s] =
                             [bytes |-> afterTemp[r.output_filename],
                              filename |-> r.output_filename, type |-> "audio"]]
                        /\ pc' = [pc EXCEPT ![s] = "show"]
                        /\ UNCHANGED crash
    /\ UNCHANGED <<dir_exists, ffmpeg_installed, keys, yt, registered,
                   video_streams, audio_streams, last_percent, req, rendered,
                   created, reported, runs, cli>>

Next ==
    \E s \in Sessions :
       \/ StartRun(s)
       \/ FetchInfo(s)
       \/ Display(s)
       \/ AudioTab(s)
       \/ Show(s)
       \/ DlOpen(s)
       \/ DlChunk(s)
       \/ DlFail(s)
       \/ DvStart(s)
       \/ DvAudio(s)
       \/ DvMerge(s)
       \/ DvFinish(s)
       \/ DaStart(s)
       \/ DaConvert(s)
       \/ DaFinish(s)

Spec == Init /\ [][Next]_vars

(***************************************************************************)
(* concept.py: download_video(url) on any list of mp4 streams the provider *)
(* may return for the URL.                                                 *)
(***************************************************************************)
CliPool ==
    << Stream(1, "video", FALSE, 1080, 0, "mp4", 2, 2),
       Stream(2, "video", TRUE, 720, 96, "mp4", 2, 2),
       Stream(3, "audio", FALSE, 0, 160, "mp4", 1, 1),
       Stream(5, "video", TRUE, 360, 96, "mp4", 1, 1),
       Stream(6, "audio", FALSE, 0, 128, "mp4", 1, 1),
       Stream(7, "video", FALSE, 720, 0, "mp4", 2, 2),
       Stream(8, "video", FALSE, 480, 0, "mp4", 1, 1) >>

CliTitle == <<"C">>

CliLists ==
    { SelectSeq(CliPool, LAMBDA st : st.itag \in S) :
        S \in SUBSET { st.itag : st \in SeqToSet(CliPool) } }

InitCli ==
    /\ AppInit
    /\ cli \in { [NoCli EXCEPT !.pc = "start", !.streams = q] : q \in CliLists }

\* yt.streams.get_highest_resolution(): the progressive stream of the highest
\* resolution, None when there is no progressive stream.
get_highest_resolution(q) == last(order_by(Progressive(q), "resolution"))

\* yt.streams.filter(adaptive=True, file_extension='mp4').order_by('resolution').desc().first()
BestAdaptiveVideo(q) == first(desc(order_by(Mp4Adaptive(q), "resolution")))

\* YouTube(url), the title and the stream query; the errors are printed.
CliResolve ==
    /\ cli.pc = "start"
    /\ \E exc \in {"none", "HTTPError", "PytubeFixError", "Exception"} :
          IF exc = "none"
          THEN cli' = [cli EXCEPT !.pc = "selected",
                                  !.video = get_highest_resolution(cli.streams)]
          ELSE cli' = [cli EXCEPT !.pc = "done", !.out = @ \cup {exc}]
    /\ UNCHANGED <<hostVars, stateVars, runVars, obsVars, runs>>

\* if stream: the progressive stream is downloaded.
CliProgressive ==
    /\ cli.pc = "selected"
    /\ cli.video # NoStream
    /\ \/ cli' = [cli EXCEPT !.pc = "done", !.out = @ \cup {"completed"},
                             !.downloaded = @ \cup
                                 {DefaultPath("", CliTitle, cli.video)}]
       \/ cli' = [cli EXCEPT !.pc = "done", !.out = @ \cup {"HTTPError"}]
    /\ UNCHANGED <<hostVars, stateVars, runVars, obsVars, runs>>

\* else: the best video and audio streams are looked up.
CliFallback ==
    /\ cli.pc = "selected"
    /\ cli.video = NoStream
    /\ LET video_stream == BestAdaptiveVideo(cli.streams)
           audio_stream == BestAudio(cli.streams)
       IN  IF video_stream # NoStream /\ audio_stream # NoStream
           THEN cli' = [cli EXCEPT !.pc = "split_video", !.video = video_stream,
                                   !.audio = audio_stream]
           ELSE cli' = [cli EXCEPT !.pc = "done", !.out = @ \cup {"no_suitable"}]
    /\ UNCHANGED <<hostVars, stateVars, runVars, obsVars, runs>>

\* video_stream.download(filename_prefix='video_')
CliVideoTrack ==
    /\ cli.pc = "split_video"
    /\ \/ cli' = [cli EXCEPT !.pc = "split_audio",
                             !.downloaded = @ \cup
                                 {DefaultPath("video_", CliTitle, cli.video)}]
       \/ cli' = [cli EXCEPT !.pc = "done", !.out = @ \cup {"HTTPError"}]
    /\ UNCHANGED <<hostVars, stateVars, runVars, obsVars, runs>>

\* audio_stream.download(filename_prefix='audio_'), then the note about merging.
CliAudioTrack ==
    /\ cli.pc = "split_audio"
    /\ \/ cli' = [cli EXCEPT !.pc = "done",
                             !.out = @ \cup {"completed", "merge_note"},
                             !.downloaded = @ \cup
                                 {DefaultPath("audio_", CliTitle, cli.audio)}]
       \/ cli' = [cli EXCEPT !.pc = "done", !.out = @ \cup {"HTTPError"}]
    /\ UNCHANGED <<hostVars, stateVars, runVars, obsVars, runs>>

NextCli ==
    \/ CliResolve
    \/ CliProgressive
    \/ CliFallback
    \/ CliVideoTrack
    \/ CliAudioTrack

SpecCli == InitCli /\ [][NextCli]_vars

(***************************************************************************)
(* Properties.                                                             *)
(***************************************************************************)
\* A download request of session s has run and ended.
Finished(s) == pc[s] = "idle" /\ req[s].btn \in {"video", "audio"}

\* Session s is inside a download handler.
InFlight(s) ==
    pc[s] \in {"dl_open", "dl", "dv_audio", "dv_merge", "dv_finish",
               "da_convert", "da_finish"}

\* The paths the request of s writes.
RequestPaths(s) ==
    (created[s] \cup {req[s].dl_path, req[s].output_filename}) \ {NoPath}

\* The exceptions of the request steps: fetching, merging, converting, writing.
StepErrors == {"DownloadError", "OSError", "FileNotFoundError", "CalledProcessError"}

StrictlyIncreasing(q) == \A i \in 1 .. Len(q) - 1 : q[i] < q[i + 1]

\* C1: once a download request has ended, in success or failure, no file
\* it created in the downloads directory is left on disk.
C1_NoArtifactRemains ==
    \A s \in Sessions :
       Finished(s) => \A p \in created[s] : files[p] = NoFile

\* C2: when the encoder exits with a non-zero status, the merge is reported
\* as failed with the encoder's output, and the downloaded video and audio files
\* of the request are deleted.
C2_FailedMergeCleansUp ==
    \A s \in Sessions :
       (Finished(s) /\ req[s].merge = "failed") =>
          /\ {"ffmpeg_output", "merge_failed"} \subseteq msgs[s]
          /\ files[req[s].video_filepath] = NoFile
          /\ files[req[s].audio_filepath] = NoFile

\* C3: for a video-only selection of a video with no audio-only stream the
\* request (none of whose steps met a network or file error) ends with nothing
\* downloaded, and not with the failure of a call on the missing audio stream
\* after the video track was fetched.
C3_BothResolvedBeforeDownload ==
    \A s \in Sessions :
       ( /\ Finished(s)
         /\ req[s].btn = "video"
         /\ req[s].stream # NoStream
         /\ ~req[s].stream.is_progressive
         /\ BestAudio(StreamsOf(yt[s])) = NoStream
         /\ crash[s] \notin StepErrors ) =>
          /\ created[s] = {}
          /\ crash[s] # "NoneTypeAttribute"

\* The streams of the list that hold a video track, and its audio-only streams.
VideoCapable(q) == { st \in SeqToSet(q) : st.type = "video" }
AudioOnly(q) == { st \in SeqToSet(q) : st.type = "audio" }

\* C4: a completed best-quality download took the video-capable stream of
\* maximum resolution; when that stream is video-only it took the audio-only
\* stream of maximum bitrate as well, merged the two and left one output file.
C4_BestSelection ==
    (cli.pc = "done" /\ "completed" \in cli.out) =>
       /\ \A st \in VideoCapable(cli.streams) : st.res <= cli.video.res
       /\ ~cli.video.is_progressive =>
             /\ \A st \in AudioOnly(cli.streams) : st.abr <= cli.audio.abr
             /\ "merged" \in cli.out
             /\ Cardinality(cli.downloaded) = 1

\* C5: no error of a request step ends the script run as an uncaught
\* exception.
C5_ErrorsCaught ==
    \A s \in Sessions : crash[s] \notin StepErrors

\* C6: when the encoder executable is absent the merge reports it, the
\* delivery step does not run (nothing is read, download_info stays empty), and
\* there is no merged output file.
C6_EncoderAbsent ==
    \A s \in Sessions :
       req[s].merge = "not_found" =>
          /\ "ffmpeg_not_found" \in msgs[s]
          /\ "process_complete" \notin msgs[s]
          /\ req[s].final_video_path = NoPath
          /\ download_info[s] = NoInfo
          /\ req[s].output_filename \notin created[s]
          /\ files[req[s].output_filename].kind # "merged"

C6_Witness ==
    \E s \in Sessions :
       /\ Finished(s)
       /\ req[s].merge = "not_found"
       /\ files[req[s].video_filepath] # NoFile
       /\ files[req[s].audio_filepath] # NoFile

\* C7: in a Download Video request for a progressive stream the merge is
\* never called, no audio stream is fetched, and the one file downloaded is the
\* file delivered.
C7_ProgressiveNoMerge ==
    \A s \in Sessions :
       (req[s].btn = "video" /\ req[s].stream.is_progressive) =>
          /\ req[s].merge = "not_called"
          /\ req[s].audio_filepath = NoPath
          /\ req[s].dl = req[s].stream
          /\ "ffmpeg_output" \notin msgs[s]
          /\ created[s] \subseteq {req[s].output_filename}
          /\ download_info[s] # NoInfo =>
                /\ req[s].final_video_path = req[s].dl_path
                /\ created[s] = {req[s].final_video_path}
                /\ download_info[s].filename = req[s].output_filename
                /\ download_info[s].type = "video"

C7_Witness ==
    \E s \in Sessions :
       /\ Finished(s)
       /\ req[s].btn = "video"
       /\ req[s].stream.is_progressive
       /\ download_info[s] # NoInfo

FileKinds == {"progressive", "video", "audio", "merged", "mp3"}

\* C8: of two download requests that run at the same time, neither uses a
\* path the other has written, and a file one of them wrote is not overwritten
\* by the other.
C8_DistinctPaths ==
    \A s1, s2 \in Sessions :
       (s1 # s2 /\ InFlight(s1) /\ InFlight(s2)) =>
          /\ created[s1] \cap RequestPaths(s2) = {}
          /\ \A p \in created[s1] : files[p] \in {NoFile} \cup
                                        {File(s1, k) : k \in FileKinds}

\* C9: within a Download Video request the percentages reported grow
\* strictly, and the callback never ends the request, whatever the declared size.
C9_ProgressAdvisory ==
    \A s \in Sessions :
       req[s].btn = "video" =>
          /\ StrictlyIncreasing(reported[s])
          /\ crash[s] # "ZeroDivisionError"

\* C10: every session-state key is defined where the script reads it.
C10_KeysDefinedWhenRead ==
    \A s \in Sessions :
       /\ pc[s] = "display" => "yt" \in keys[s]
       /\ (pc[s] = "display" /\ "yt" \in keys[s] /\ yt[s] # "None") =>
             "video_streams" \in keys[s]
       /\ pc[s] = "audio_tab" => "audio_streams" \in keys[s]
       /\ pc[s] = "show" => "download_info" \in keys[s]
       /\ crash[s] # "MissingStateKey"

====
